---- MODULE Spec2Model ----
(***************************************************************************)
(* Model of the category administration front end:                         *)
(*   - ImageUpload (src/unnamed/part_002): prepareImageUrl and              *)
(*     handleFileChange,                                                    *)
(*   - CategoryForm (src/unnamed/part_001): mount requests, form binding,   *)
(*     schema validation, onSubmit.                                         *)
(* JavaScript strings whose characters the code inspects (URLs, MIME types, *)
(* the route parameter) are sequences of one-character strings.  null and   *)
(* undefined are the reserved one-symbol sequences NULL and UNDEFINED where *)
(* a string is expected, and tagged records where a number is expected.     *)
(***************************************************************************)
EXTENDS Integers, Sequences, FiniteSets, TLC

VARIABLES
    \* ---- ImageUpload: file picker (handleFileChange)
    picked,         \* event.target.files of the change event being handled
    idx,            \* forEach position: index of the next file, 0 when idle
    uploads,        \* files handed to onUpload by the current/last handler run
    notices,        \* showNotification calls of the current/last handler run
    inputValue,     \* fileInputRef.current.value
    \* ---- ImageUpload: thumbnail grid (prepareImageUrl)
    images,         \* props.images
    token,          \* what getToken() returns
    srcs,           \* <img src> of each thumbnail as last rendered
    renderedToken,  \* history: the token getToken() returned at that render
    removed,        \* index last passed to onRemove (0: none yet)
    \* ---- CategoryForm
    id,             \* useParams().id: UNDEFINED or the route string
    route,          \* "form" while the form is mounted, "categories" after navigate
    listReq,        \* getAllCategories request: "pending" | "done"
    catReq,         \* getCategoryById request: "idle" | "pending" | "done"
    categories,     \* data of the category-list request (Undefined until it succeeds)
    form,           \* react-hook-form values: name, description, parentCategoryId
    isActive,       \* useState: the status toggle
    audit,          \* useState: createdBy, lastModifiedBy, createdAt, updatedAt
    errors,         \* formState.errors: the fields with a validation message
    submits         \* one record per onSubmit run: its request and what it did

uploadVars == <<picked, idx, uploads, notices, inputValue>>
gridVars == <<images, token, srcs, renderedToken, removed>>
formVars == <<id, route, listReq, catReq, categories, form, isActive, audit, errors, submits>>
vars == <<uploadVars, gridVars, formVars>>

-----------------------------------------------------------------------------
(* Bounds *)
MaxFiles == 2
MaxImages == 2
MaxSubmits == 1

-----------------------------------------------------------------------------
(* JavaScript values *)
NULL == <<"<null>">>
UNDEFINED == <<"<undefined>">>

\* String.prototype.startsWith
StartsWith(s, p) == Len(p) <= Len(s) /\ SubSeq(s, 1, Len(p)) = p

\* String.prototype.includes
Includes(s, sub) ==
    \E i \in 0..(Len(s) - Len(sub)) : SubSeq(s, i + 1, i + Len(sub)) = sub

\* truthiness of a string-or-null value
Truthy(v) == v # NULL /\ v # UNDEFINED /\ v # <<>>

Range(s) == {s[i] : i \in DOMAIN s}

SeqsUpTo(S, n) == UNION {[1..k -> S] : k \in 0..n}

-----------------------------------------------------------------------------
(* ImageUpload: handleFileChange *)

ImagePng == <<"i","m","a","g","e","/","p","n","g">>
TextPlain == <<"t","e","x","t","/","p","l","a","i","n">>
NotQuiteImage == <<"x","i","m","a","g","e","/">>
ImagePrefix == <<"i","m","a","g","e","/">>

FileTypes == {ImagePng, TextPlain, NotQuiteImage, <<>>}
FileSizes == {0, 5 * 1024 * 1024, 5 * 1024 * 1024 + 1}
FileNames == {"a", "b"}
Files == [name : FileNames, size : FileSizes, type : FileTypes]

\* file.size > 5 * 1024 * 1024
TooLargeStrict(file) == file.size >= 5 * 1024 * 1024
TooLarge(file) == file.size > 5 * 1024 * 1024

\* !file.type.startsWith('image/')
NotImageNever(file) == FALSE
NotImage(file) == ~StartsWith(file.type, ImagePrefix)

TooLargeNotice(file) ==
    [level |-> "error", text |-> <<"File", file.name, "is too large. Maximum size is 5MB.">>]
NotImageNotice(file) ==
    [level |-> "error", text |-> <<"File", file.name, "is not an image.">>]

\* onChange of the file input: the handler starts on the delivered selection
HandleFileChange(files) ==
    /\ picked' = files
    /\ uploads' = <<>>
    /\ notices' = <<>>
    /\ IF Len(files) > 0
       THEN idx' = 1 /\ inputValue' = "C:\\fakepath"
       ELSE idx' = 0 /\ inputValue' = ""
    /\ UNCHANGED <<gridVars, formVars>>

\* the user closes the file picker: the browser fires the change event
FileInputChange ==
    /\ idx = 0
    /\ picked = <<>>
    /\ \E files \in SeqsUpTo(Files, MaxFiles) : HandleFileChange(files)

\* one call of the forEach callback
ProcessFile ==
    /\ idx >= 1 /\ idx <= Len(picked)
    /\ LET file == picked[idx] IN
        \/ /\ TooLarge(file)
           /\ notices' = Append(notices, TooLargeNotice(file))
           /\ UNCHANGED uploads
        \/ /\ ~TooLarge(file)
           /\ NotImage(file)
           /\ notices' = Append(notices, NotImageNotice(file))
           /\ UNCHANGED uploads
        \/ /\ ~TooLarge(file)
           /\ ~NotImage(file)
           /\ uploads' = Append(uploads, file)
           /\ UNCHANGED notices
    /\ idx' = idx + 1
    /\ UNCHANGED <<picked, inputValue>>
    /\ UNCHANGED <<gridVars, formVars>>

\* after the forEach: reset the input so the same file can be selected again
ResetInput ==
    /\ idx > Len(picked)
    /\ idx' = 0
    /\ inputValue' = ""
    /\ UNCHANGED <<picked, uploads, notices>>
    /\ UNCHANGED <<gridVars, formVars>>

\* the transient notifications expire and the parent has taken the uploads:
\* nothing of the finished handler run is left
Dismiss ==
    /\ idx = 0
    /\ picked # <<>>
    /\ picked' = <<>>
    /\ uploads' = <<>>
    /\ notices' = <<>>
    /\ UNCHANGED <<idx, inputValue>>
    /\ UNCHANGED <<gridVars, formVars>>

-----------------------------------------------------------------------------
(* ImageUpload: prepareImageUrl and the thumbnail grid *)

Http == <<"h","t","t","p",":","/","/">>
Https == <<"h","t","t","p","s",":","/","/">>
AuthParam == <<"a","u","t","h","_","t","o","k","e","n","=">>
API_BASE_URL == Https \o <<"a","p","i",".","x">>

getToken == token

prepareImageUrl(imageUrl) ==
    IF StartsWith(imageUrl, Http) \/ StartsWith(imageUrl, Https)
    THEN IF Includes(imageUrl, API_BASE_URL) /\ Truthy(getToken)
         THEN imageUrl \o (IF Includes(imageUrl, <<"?">>) THEN <<"&">> ELSE <<"?">>)
                       \o AuthParam \o getToken
         ELSE imageUrl
    ELSE LET baseUrl == API_BASE_URL
             normalizedUrl == IF StartsWith(imageUrl, <<"/">>)
                              THEN baseUrl \o imageUrl
                              ELSE baseUrl \o <<"/">> \o imageUrl
         IN IF Truthy(getToken)
            THEN normalizedUrl \o <<"?">> \o AuthParam \o getToken
            ELSE normalizedUrl

\* images.map(image => <CardMedia image={prepareImageUrl(image)} />)
RenderGrid(imgs) == [i \in 1..Len(imgs) |-> prepareImageUrl(imgs[i])]

ImgPath == <<"i","m","g","/","a">>
Query == <<"?","v","=","1">>
CdnHost == Https \o <<"c","d","n",".","y">>
RelativeUrls ==
    {ImgPath, <<"/">> \o ImgPath, ImgPath \o Query, <<"/">> \o ImgPath \o Query}
ApiUrls ==
    {API_BASE_URL \o <<"/">> \o ImgPath, API_BASE_URL \o <<"/">> \o ImgPath \o Query}
ForeignUrls ==
    { CdnHost \o <<"/">> \o ImgPath,
      CdnHost \o <<"/">> \o ImgPath \o Query,
      Http \o <<"c","d","n",".","y","/","a">>,
      CdnHost \o <<"/","?","u","=">> \o API_BASE_URL,
      API_BASE_URL \o <<".","e","v","i","l",".","y","/","a">> }
ImageUrls == RelativeUrls \cup ApiUrls \cup ForeignUrls

Tokens == {NULL, <<>>, <<"T">>}

\* the parent re-renders the widget with a new images prop
SetImages(imgs) ==
    /\ images' = imgs
    /\ srcs' = RenderGrid(imgs)
    /\ renderedToken' = token
    /\ UNCHANGED <<token, removed>>
    /\ UNCHANGED <<uploadVars, formVars>>

\* login, logout or token refresh elsewhere in the application: no re-render
SetToken(t) ==
    /\ t # token
    /\ token' = t
    /\ UNCHANGED <<images, srcs, renderedToken, removed>>
    /\ UNCHANGED <<uploadVars, formVars>>

\* the parent re-renders with the same images
Rerender ==
    /\ renderedToken # token
    /\ srcs' = RenderGrid(images)
    /\ renderedToken' = token
    /\ UNCHANGED <<images, token, removed>>
    /\ UNCHANGED <<uploadVars, formVars>>

\* the delete button of thumbnail i
ClickRemove(i) ==
    /\ i \in 1..Len(images)
    /\ removed' = i
    /\ UNCHANGED <<images, token, srcs, renderedToken>>
    /\ UNCHANGED <<uploadVars, formVars>>


-----------------------------------------------------------------------------
(* CategoryForm: JavaScript numbers, null and undefined as tagged records *)

Null == [t |-> "null"]
Undefined == [t |-> "undefined"]
NaN == [t |-> "NaN"]
Num(n) == [t |-> "number", v |-> n]
Str(s) == [t |-> "string", chars |-> s]

\* Number(x) for the value of a MenuItem
Number(x) == IF x.t = "number" THEN x ELSE IF x = Str("") THEN Num(0) ELSE NaN

\* x || null for a number, NaN, null or undefined x
OrNull(x) == IF x.t = "number" /\ x.v # 0 THEN x ELSE Null

Digits == <<"0","1","2","3","4","5","6","7","8","9">>
IsDigit(c) == \E d \in DOMAIN Digits : Digits[d] = c
DigitValue(c) == (CHOOSE d \in DOMAIN Digits : Digits[d] = c) - 1

RECURSIVE ParseFrom(_, _, _)
ParseFrom(s, i, acc) ==
    IF i > Len(s) \/ ~IsDigit(s[i]) THEN acc
    ELSE ParseFrom(s, i + 1, acc * 10 + DigitValue(s[i]))

\* parseInt of a route string: its leading decimal digits, NaN when there are none
parseInt(s) == IF Len(s) = 0 \/ ~IsDigit(s[1]) THEN NaN ELSE Num(ParseFrom(s, 1, 0))

RECURSIVE Ascending(_)
Ascending(S) ==
    IF S = {} THEN <<>>
    ELSE LET m == CHOOSE x \in S : \A y \in S : x <= y
         IN <<m>> \o Ascending(S \ {m})

-----------------------------------------------------------------------------
(* CategoryForm: what the route and the Category Service can deliver *)

CategoryIds == {0, 1}
RouteIds == {UNDEFINED, <<"0">>, <<"1">>, <<"x">>}

\* getAllCategories: the ids of the CategorySummary list
ServerLists == {Ascending(S) : S \in SUBSET CategoryIds}

ParentRefs == {Undefined} \cup {[t |-> "object", id |-> n] : n \in CategoryIds}
ServerCategories ==
    [name : {"A"}, description : {"D"}, parentCategory : ParentRefs,
     status : {"ACTIVE", "INACTIVE"},
     createdBy : {"admin"}, lastModifiedBy : {""},
     createdAt : {"2024-01-01"}, updatedAt : {"2024-01-02"}]

\* what fetchCategory resolves to: an envelope, or undefined when the request failed
CategoryResponses ==
    {[t |-> "object", status |-> "SUCCESS", data |-> c] : c \in ServerCategories}
    \cup {[t |-> "object", status |-> "SUCCESS", data |-> Undefined],
          [t |-> "object", status |-> "ERROR", data |-> Undefined],
          Undefined}

\* the value a MenuItem of the parent Select can carry
MenuValues == {Str("")} \cup {Num(n) : n \in CategoryIds}

Names == {"", "A"}
Descriptions == {"", "D"}

-----------------------------------------------------------------------------
(* CategoryForm: derived values of a render *)

isEditMode == Truthy(id)

defaultValues == [name |-> "", description |-> "", parentCategoryId |-> Null]

\* useApiRequest's loading flags
loadingCategories == listReq = "pending"
loadingCategory == catReq = "pending"

loadingListOnly == loadingCategories
loading == loadingCategories \/ loadingCategory

\* if (loading) return <CircularProgress />; return <Paper>...<form>
View == IF loading THEN "spinner" ELSE "form"

\* the MenuItems of the parent Select besides "None"
CandidatesUnfiltered ==
    IF categories.t = "array" THEN categories.items ELSE <<>>
Candidates ==
    IF categories.t = "array"
    THEN SelectSeq(categories.items,
                   LAMBDA cat : ~isEditMode
                                \/ Num(cat) # parseInt(IF Truthy(id) THEN id ELSE <<"0">>))
    ELSE <<>>

\* yup: string().required() twice, number().nullable().transform(NaN -> null)
schemaNameOnly(values) ==
    [errors |-> IF values.name = "" THEN {"name"} ELSE {},
     data |-> values]
schema(values) ==
    [errors |-> (IF values.name = "" THEN {"name"} ELSE {})
                \cup (IF values.description = "" THEN {"description"} ELSE {}),
     data |-> [values EXCEPT !.parentCategoryId =
                   IF values.parentCategoryId.t = "NaN" THEN Null
                   ELSE values.parentCategoryId]]

\* reset({name, description, parentCategoryId: category.parentCategory?.id || null})
resetValues(category) ==
    [name |-> category.name,
     description |-> category.description,
     parentCategoryId |->
        OrNull(IF category.parentCategory.t = "object"
               THEN Num(category.parentCategory.id) ELSE Undefined)]

\* formData: parentCategoryId is spread in only when it is not null
formDataWithNull(data) ==
    [k \in {"name", "description", "parentCategoryId"} |-> data[k]]
formData(data) ==
    [k \in {"name", "description"}
           \cup (IF data.parentCategoryId # Null THEN {"parentCategoryId"} ELSE {})
        |-> data[k]]

\* requestData: formData plus the status of the toggle
requestData(data) ==
    LET fd == formData(data)
    IN [k \in DOMAIN fd \cup {"status"} |->
            IF k = "status" THEN (IF isActive THEN "ACTIVE" ELSE "INACTIVE") ELSE fd[k]]

\* the service call chosen by  if (isEditMode && id)
serviceCallAlwaysCreate == [op |-> "create", arg |-> Undefined]
serviceCall ==
    IF isEditMode /\ Truthy(id)
    THEN [op |-> "update", arg |-> parseInt(id)]
    ELSE [op |-> "create", arg |-> Undefined]

\* what onSubmit does once the awaited call settles
afterResponseAlwaysNavigate(outcome) ==
    IF outcome = "SUCCESS" THEN <<"notify:success", "navigate">>
    ELSE <<"notify:error", "navigate">>
afterResponse(outcome) ==
    IF outcome = "THROWN" THEN <<"notify:error">>
    ELSE IF outcome = "SUCCESS" THEN <<"notify:success", "navigate">>
    ELSE <<"notify:error">>

Outcomes == {"SUCCESS", "FAILED", "THROWN"}

-----------------------------------------------------------------------------
(* CategoryForm: actions *)

\* the component is gone: its state is discarded
Unmounted ==
    /\ route' = "categories"
    /\ form' = defaultValues
    /\ isActive' = TRUE
    /\ audit' = [createdBy |-> "", lastModifiedBy |-> "", createdAt |-> "", updatedAt |-> ""]
    /\ errors' = {}
    /\ categories' = Undefined

\* the category-list request settles
CategoriesResponse(ok, list) ==
    /\ listReq = "pending"
    /\ listReq' = "done"
    /\ categories' = IF ok THEN [t |-> "array", items |-> list] ELSE categories
    /\ UNCHANGED <<id, route, catReq, form, isActive, audit, errors, submits>>
    /\ UNCHANGED <<uploadVars, gridVars>>

\* the single-category request settles: the .then callback of the effect
CategoryResponse(response) ==
    /\ catReq = "pending"
    /\ catReq' = "done"
    /\ IF response.t = "object" /\ response.status = "SUCCESS" /\ response.data # Undefined
       THEN LET category == response.data IN
            /\ form' = resetValues(category)
            /\ errors' = {}
            /\ isActive' = (category.status = "ACTIVE")
            /\ audit' = [createdBy |-> category.createdBy,
                         lastModifiedBy |-> category.lastModifiedBy,
                         createdAt |-> category.createdAt,
                         updatedAt |-> category.updatedAt]
       ELSE UNCHANGED <<form, errors, isActive, audit>>
    /\ UNCHANGED <<id, route, listReq, categories, submits>>
    /\ UNCHANGED <<uploadVars, gridVars>>

Editable == route = "form" /\ View = "form"

ChangeName(v) ==
    /\ Editable
    /\ form' = [form EXCEPT !.name = v]
    /\ UNCHANGED <<id, route, listReq, catReq, categories, isActive, audit, errors, submits>>
    /\ UNCHANGED <<uploadVars, gridVars>>

ChangeDescription(v) ==
    /\ Editable
    /\ form' = [form EXCEPT !.description = v]
    /\ UNCHANGED <<id, route, listReq, catReq, categories, isActive, audit, errors, submits>>
    /\ UNCHANGED <<uploadVars, gridVars>>

\* onChange of the parent Select: "" is the None item, the others carry category.id
SelectParent(value) ==
    /\ Editable
    /\ value = Str("") \/ \E cat \in Range(Candidates) : value = Num(cat)
    /\ form' = [form EXCEPT !.parentCategoryId =
                    IF value = Str("") THEN Null ELSE Number(value)]
    /\ UNCHANGED <<id, route, listReq, catReq, categories, isActive, audit, errors, submits>>
    /\ UNCHANGED <<uploadVars, gridVars>>

ToggleStatus(checked) ==
    /\ Editable
    /\ isActive' = checked
    /\ UNCHANGED <<id, route, listReq, catReq, categories, form, audit, errors, submits>>
    /\ UNCHANGED <<uploadVars, gridVars>>

ClickCancel ==
    /\ Editable
    /\ Unmounted
    /\ UNCHANGED <<id, listReq, catReq, submits>>
    /\ UNCHANGED <<uploadVars, gridVars>>

\* handleSubmit(onSubmit): validate, then run onSubmit up to its await
ClickSubmit ==
    /\ Editable
    /\ LET v == schema(form) IN
        \/ /\ v.errors # {}
           /\ errors' = v.errors
           /\ UNCHANGED submits
        \/ /\ v.errors = {}
           /\ Len(submits) < MaxSubmits
           /\ errors' = {}
           /\ submits' = Append(submits,
                [parent |-> form.parentCategoryId,
                 payload |-> requestData(v.data),
                 op |-> serviceCall.op,
                 arg |-> serviceCall.arg,
                 events |-> <<"notify:info", "call">>,
                 outcome |-> "pending"])
    /\ UNCHANGED <<id, route, listReq, catReq, categories, form, isActive, audit>>
    /\ UNCHANGED <<uploadVars, gridVars>>

\* the awaited create/update call of submit s settles
ServiceResponse(s, outcome) ==
    /\ s \in DOMAIN submits
    /\ submits[s].outcome = "pending"
    /\ LET did == afterResponse(outcome) IN
        /\ submits' = [submits EXCEPT ![s].outcome = outcome,
                                      ![s].events = @ \o did]
        /\ IF \E i \in DOMAIN did : did[i] = "navigate"
           THEN Unmounted
           ELSE UNCHANGED <<route, form, isActive, audit, errors, categories>>
    /\ UNCHANGED <<id, listReq, catReq>>
    /\ UNCHANGED <<uploadVars, gridVars>>

-----------------------------------------------------------------------------
(* Specifications *)

IdleUpload ==
    /\ picked = <<>> /\ idx = 0 /\ uploads = <<>> /\ notices = <<>>
    /\ inputValue = ""

EmptyGrid ==
    /\ images = <<>> /\ srcs = <<>> /\ removed = 0
    /\ renderedToken = token

\* the form right after mount: the effect has issued its requests
MountedForm ==
    /\ route = "form"
    /\ listReq = "pending"
    /\ catReq = IF isEditMode /\ Truthy(id) THEN "pending" ELSE "idle"
    /\ categories = Undefined
    /\ form = defaultValues
    /\ isActive = TRUE
    /\ audit = [createdBy |-> "", lastModifiedBy |-> "", createdAt |-> "", updatedAt |-> ""]
    /\ errors = {}
    /\ submits = <<>>

Init ==
    /\ id \in RouteIds
    /\ MountedForm
    /\ token = NULL /\ EmptyGrid /\ IdleUpload

InitUpload ==
    /\ id = UNDEFINED
    /\ MountedForm
    /\ token = NULL /\ EmptyGrid /\ IdleUpload

InitGrid ==
    /\ id = UNDEFINED
    /\ MountedForm
    /\ token \in Tokens /\ EmptyGrid /\ IdleUpload

Next ==
    \/ \E ok \in BOOLEAN, list \in ServerLists : CategoriesResponse(ok, list)
    \/ \E response \in CategoryResponses : CategoryResponse(response)
    \/ \E v \in Names : ChangeName(v)
    \/ \E v \in Descriptions : ChangeDescription(v)
    \/ \E value \in MenuValues : SelectParent(value)
    \/ \E checked \in BOOLEAN : ToggleStatus(checked)
    \/ ClickCancel
    \/ ClickSubmit
    \/ \E s \in 1..MaxSubmits, outcome \in Outcomes : ServiceResponse(s, outcome)

NextUpload ==
    \/ FileInputChange
    \/ ProcessFile
    \/ ResetInput
    \/ Dismiss

NextGrid ==
    \/ \E imgs \in SeqsUpTo(ImageUrls, MaxImages) : SetImages(imgs)
    \/ \E t \in Tokens : SetToken(t)
    \/ Rerender
    \/ \E i \in 1..MaxImages : ClickRemove(i)

Spec == Init /\ [][Next]_vars
SpecUpload == InitUpload /\ [][NextUpload]_vars
SpecGrid == InitGrid /\ [][NextGrid]_vars

-----------------------------------------------------------------------------
(* Properties of handleFileChange (SpecUpload) *)

\* a file the widget must reject: over 5,242,880 bytes, or a type not starting "image/"
IsRejectable(f) ==
    \/ f.size > 5242880
    \/ Len(f.type) < 6
    \/ \E i \in 1..6 : f.type[i] # <<"i","m","a","g","e","/">>[i]

\* how many files of the selection the forEach has gone through
Processed == IF idx = 0 THEN Len(picked) ELSE idx - 1

RECURSIVE AcceptedOf(_, _)
\* the first n files restricted to the acceptable ones, in input order
AcceptedOf(files, n) ==
    IF n = 0 THEN <<>>
    ELSE IF IsRejectable(files[n]) THEN AcceptedOf(files, n - 1)
         ELSE Append(AcceptedOf(files, n - 1), files[n])

RECURSIVE RejectedNamesOf(_, _)
\* the names of the rejectable files among the first n, in input order
RejectedNamesOf(files, n) ==
    IF n = 0 THEN <<>>
    ELSE IF IsRejectable(files[n]) THEN Append(RejectedNamesOf(files, n - 1), files[n].name)
         ELSE RejectedNamesOf(files, n - 1)

\* C1: a file over 5,242,880 bytes or of a non-image type never reaches onUpload
\* and gets an error notification naming it; the files after it are still
\* processed (every file of a finished run was either uploaded or notified).
C1_RejectedNeverUploaded ==
    /\ \A i \in 1..Processed :
          IsRejectable(picked[i]) => \A u \in DOMAIN uploads : uploads[u] # picked[i]
    /\ Len(notices) = Len(RejectedNamesOf(picked, Processed))
    /\ \A j \in DOMAIN notices :
          /\ notices[j].level = "error"
          /\ notices[j].text[2] = RejectedNamesOf(picked, Processed)[j]
    /\ idx = 0 => Len(uploads) + Len(notices) = Len(picked)

\* a finished run in which the first file was rejected and the second uploaded
C1_Witness ==
    /\ idx = 0 /\ Len(picked) = 2
    /\ IsRejectable(picked[1]) /\ ~IsRejectable(picked[2])
    /\ uploads = <<picked[2]>>
    /\ Len(notices) = 1

\* C2: the onUpload calls are the selection restricted to the valid files
\* (size <= 5,242,880 and type starting "image/"), each once, in input order.
C2_UploadsAreValidInOrder ==
    uploads = AcceptedOf(picked, Processed)

\* a finished run that uploaded two different valid files, one of exactly 5 MB
C2_Witness ==
    /\ idx = 0 /\ Len(picked) = 2 /\ uploads = picked
    /\ picked[1] # picked[2]
    /\ picked[1].size = 5242880

-----------------------------------------------------------------------------
(* Properties of prepareImageUrl (SpecGrid) *)

IsAbsolute(url) == StartsWith(url, Http) \/ StartsWith(url, Https)

\* the URL addresses the API: the base URL, then the end, a path, a query or a fragment
OriginatesFromApi(url) ==
    /\ StartsWith(url, API_BASE_URL)
    /\ \/ Len(url) = Len(API_BASE_URL)
       \/ url[Len(API_BASE_URL) + 1] \in {"/", "?", "#"}

HasToken(t) == t # NULL /\ t # <<>>

\* C9: an absolute URL that does not originate from the API base URL is rendered
\* unchanged whatever the token is.
C9_ForeignUrlUnchanged ==
    \A i \in DOMAIN images :
        (IsAbsolute(images[i]) /\ ~OriginatesFromApi(images[i])) => srcs[i] = images[i]

\* the well-formed URL for a relative path
JoinedRelative(path, t) ==
    LET joined == IF path[1] = "/" THEN API_BASE_URL \o path
                  ELSE API_BASE_URL \o <<"/">> \o path
        sep == IF \E k \in DOMAIN joined : joined[k] = "?" THEN <<"&">> ELSE <<"?">>
    IN IF HasToken(t) THEN joined \o sep \o AuthParam \o t ELSE joined

\* C10: a relative path is rendered as base URL, one "/", the path, and, when
\* there is a token, auth_token=<token> introduced by "?" or, after an existing
\* query, by "&".
C10_RelativeUrlWellFormed ==
    \A i \in DOMAIN images :
        ~IsAbsolute(images[i]) => srcs[i] = JoinedRelative(images[i], renderedToken)

-----------------------------------------------------------------------------
(* Properties of CategoryForm (Spec) *)

\* C3: a submit with an empty name or an empty description sets the error of
\* each empty field and starts no create/update call; an onSubmit run starts
\* only from a form whose name and description are both non-empty.
C3_InvalidSubmitBlocked ==
    [][ /\ (ClickSubmit /\ (form.name = "" \/ form.description = "")) =>
              /\ submits' = submits
              /\ form.name = "" => "name" \in errors'
              /\ form.description = "" => "description" \in errors'
        /\ Len(submits') > Len(submits) => (form.name # "" /\ form.description # "")
      ]_vars

\* a submit with only the description empty was refused
C3_Witness ==
    /\ route = "form"
    /\ form.name # "" /\ form.description = ""
    /\ errors = {"description"}
    /\ submits = <<>>

\* C4: the payload of every call has a parentCategoryId key iff the form's
\* parentCategoryId was a number when it was submitted, and then carries that
\* number; a null form value leaves the key out.
C4_ParentKeyIffNumber ==
    \A s \in DOMAIN submits :
        LET r == submits[s] IN
        /\ ("parentCategoryId" \in DOMAIN r.payload) <=> (r.parent.t = "number")
        /\ r.parent.t = "number" => r.payload.parentCategoryId = r.parent

\* a call was made from a form whose parentCategoryId was null
C4_Witness ==
    \E s \in DOMAIN submits :
        /\ submits[s].parent = Null
        /\ DOMAIN submits[s].payload = {"name", "description", "status"}

\* the form values C5 expects after a successful fetch of category
ExpectedAfterFetch(category) ==
    [name |-> category.name,
     description |-> category.description,
     parentCategoryId |-> IF category.parentCategory.t = "object"
                          THEN Num(category.parentCategory.id) ELSE Null]

\* C5: a category fetch that returns SUCCESS with data sets name and
\* description to the fetched ones, parentCategoryId to parentCategory.id when
\* there is a parentCategory (whatever its id) and to null exactly when there
\* is none, and the toggle to status = ACTIVE; any other fetch result leaves
\* form and toggle as they were.
C5_FetchPopulatesForm ==
    [][ \A response \in CategoryResponses :
          CategoryResponse(response) =>
            IF response.t = "object" /\ response.status = "SUCCESS"
               /\ response.data # Undefined
            THEN /\ form' = ExpectedAfterFetch(response.data)
                 /\ isActive' = (response.data.status = "ACTIVE")
            ELSE form' = form /\ isActive' = isActive
      ]_vars

\* the category being edited, when the route names one
EditedId == parseInt(id)

CandidatesOk ==
    /\ (isEditMode /\ EditedId.t = "number") =>
          \A k \in DOMAIN Candidates : Candidates[k] # EditedId.v
    /\ (~isEditMode /\ categories.t = "array") => Candidates = categories.items

\* C6: in edit mode the parent candidates never contain the edited category,
\* so no selection in the dropdown makes the category its own parent; in create
\* mode the candidates are the whole fetched list.
C6_SelfNotCandidate ==
    [][ /\ CandidatesOk /\ CandidatesOk'
        /\ (isEditMode /\ form'.parentCategoryId = EditedId) =>
              \A value \in MenuValues : ~SelectParent(value)
      ]_vars

\* editing category 1, whose id is in the fetched list, with a parent selected
C6_Witness ==
    /\ route = "form" /\ View = "form"
    /\ id = <<"1">>
    /\ categories.t = "array" /\ categories.items = <<0, 1>>
    /\ form.parentCategoryId = Num(0)

SubmitOk(r, where) ==
    /\ r.op = IF id # UNDEFINED THEN "update" ELSE "create"
    /\ r.op = "update" => r.arg = parseInt(id)
    /\ r.events =
          IF r.outcome = "pending" THEN <<"notify:info", "call">>
          ELSE IF r.outcome = "SUCCESS"
               THEN <<"notify:info", "call", "notify:success", "navigate">>
               ELSE <<"notify:info", "call", "notify:error">>
    /\ r.outcome = "SUCCESS" => where = "categories"

\* C7: every validated submit shows the saving notice and then makes exactly one
\* call, update when the route has an id and create otherwise, and never
\* another; it navigates iff the response is SUCCESS; after a non-SUCCESS
\* response or a thrown error it shows an error notice, does not navigate and
\* leaves the form as it was.
C7_OneCallNavigateOnSuccess ==
    [][ /\ \A s \in DOMAIN submits' : SubmitOk(submits'[s], route')
        /\ \A s \in 1..MaxSubmits, outcome \in {"FAILED", "THROWN"} :
              ServiceResponse(s, outcome) =>
                  /\ route' = route /\ form' = form /\ isActive' = isActive
                  /\ errors' = errors /\ Len(submits') = Len(submits)
      ]_vars

\* a submit failed and the form is still there with what was submitted
C7_Witness ==
    /\ route = "form"
    /\ \E s \in DOMAIN submits :
          /\ submits[s].outcome = "FAILED"
          /\ submits[s].payload.name = form.name

Pending == listReq = "pending" \/ catReq = "pending"

UserStep ==
    \/ \E v \in Names : ChangeName(v)
    \/ \E v \in Descriptions : ChangeDescription(v)
    \/ \E value \in MenuValues : SelectParent(value)
    \/ \E checked \in BOOLEAN : ToggleStatus(checked)
    \/ ClickSubmit
    \/ ClickCancel

\* C8: while the category-list request or the single-category request is
\* pending only the loading indicator is rendered, and no edit, submit or cancel
\* happens before both have completed.
C8_LoadingHidesForm ==
    [][ /\ Pending => View = "spinner"
        /\ Pending' => View' = "spinner"
        /\ UserStep => ~Pending
      ]_vars

\* edit mode: the list has arrived, the category has not, the spinner shows
C8_Witness ==
    /\ listReq = "done" /\ catReq = "pending"
    /\ View = "spinner"

====
